---------------------------- MODULE Spec2Model ----------------------------
(***************************************************************************)
(* The document-grounded answer pipeline of src/app.py:                    *)
(*   TelecomApp.load_pdf_context   (memoised by @st.cache_data)            *)
(*   TelecomApp.generate_ai_response / get_fallback_response               *)
(*   PageRenderer.render_sidebar   (status + "Reload Documents" button)    *)
(*   main                          (one script run per user interaction)   *)
(*                                                                         *)
(* The pdf directory, the Gemini adapter and the user are the environment. *)
(* load_pdf_context takes only _self, which the underscore keeps out of    *)
(* the cache key, so the memo cache holds a single entry.  The source      *)
(* holds no synchronisation of its own and how script threads of several   *)
(* sessions interleave on the cache is decided inside Streamlit; the model *)
(* is of one script thread: a user interaction starts a run of main, and   *)
(* the next one waits for that run to end.                                 *)
(***************************************************************************)
EXTENDS Integers, Sequences, FiniteSets

\* ------------------------------------------------------------------ bounds
NumFiles == 2

Files == 1..NumFiles
Texts == {"v1", "v2"}
FileStates == {"absent", "bad"} \cup Texts
Queries == {"q1", "q2"}
NoPrompt == ""
AdapterErrors == {"timeout", "quota", "malformed"}
ModelTexts == {"generated"}

VARIABLES
    corpus,      \* the pdf directory: file -> "absent" | "bad" (unreadable) | its text
    cache,       \* st.cache_data entry of load_pdf_context: <<>> or <<value>>
    pc,          \* position of the script run
    model,       \* self.model is not None
    clicked,     \* this run was triggered by the reload button
    prompt,      \* chat input of this run (NoPrompt: none)
    caller,      \* who called load_pdf_context
    pdf_files,   \* files still to visit in the for loop
    documents,   \* the local list 'documents'
    ret,         \* value load_pdf_context returned
    buttonShown, \* the reload button was rendered by the last sidebar
    response,    \* outcome of generate_ai_response in this run
    adapter,     \* what self.model.generate_content did in this run
    \* history variables (not program state)
    call,        \* record of the latest load_pdf_context call of this run
    lastRet,     \* <<>> or <<v, n>>: value of the latest completed call since the last
                 \* clear(), and the number of files that call opened
    invalidated, \* a clear() happened and no lookup since
    cleared,     \* <<>> or <<v>>: the value the clear() of this run discarded
    touched,     \* the corpus was modified after the latest glob
    whole        \* the cached value was returned by a loop that had visited every file

vars == <<corpus, cache, pc, model, clicked, prompt, caller, pdf_files, documents,
          ret, buttonShown, response, adapter, call, lastRet, invalidated, cleared,
          touched, whole>>

\* ------------------------------------------------------- pure definitions
None == <<>>

Truthy(ctx) == ctx # None

RECURSIVE SortedList(_)
SortedList(S) ==
    IF S = {} THEN <<>>
    ELSE LET f == CHOOSE x \in S : \A y \in S : x <= y
         IN  <<f>> \o SortedList(S \ {f})

\* list(pdf_dir.glob("*.pdf")): the files the directory holds, each once (the
\* order the file system yields them in is taken to be by name)
Glob(c) == SortedList({f \in Files : c[f] # "absent"})

\* f"DOCUMENT: {pdf_path.name}\n{text}\n"
Block(f, text) == [name |-> f, text |-> text]

\* fitz.open and get_text succeed on this file
Readable(state) == state \in Texts

\* variant: a file that cannot be read still contributes a block, with empty text
ExtractInto_emptyblock(docs, f, state) ==
    Append(docs, Block(f, IF Readable(state) THEN state ELSE ""))

\* one iteration of the for loop: the try body appends, the except only warns
ExtractInto(docs, f, state) ==
    IF Readable(state) THEN Append(docs, Block(f, state)) ELSE docs

\* "\n".join(documents) if documents else None
Assemble(docs) == IF docs # <<>> THEN docs ELSE None

\* variant: the return sits inside the loop, before the last file is visited
LoopDone_early(rest) == Len(rest) <= 1

\* the for loop is over: line 98 is reached
LoopDone(rest) == rest = <<>>

\* variant: an entry built before the corpus was modified is not served
IsHit_fingerprint(entry, isStale) == entry # <<>> /\ ~isStale

\* variant: the function is not memoised
IsHit_never(entry, isStale) == FALSE

\* the cache lookup of the decorated function: is this call served from the
\* cache (isStale: the corpus was modified since the entry was built)
IsHit(entry, isStale) == entry # <<>>

\* variant: the reload button reruns the script without clearing the cache
AfterClear_keeps(entry) == entry

\* st.cache_data.clear()
AfterClear(entry) == <<>>

\* variant: the button is rendered whatever load_pdf_context returned
ShowsReload_always(ctx) == TRUE

\* line 168: is the reload button rendered
ShowsReload(ctx) == Truthy(ctx)

\* generate_ai_response's result strings
UnavailableText == <<"AI service unavailable. Please check configuration.">>
get_fallback_response == <<"**Telecom Market Overview** (Based on typical INTT data)">>
NoResponseText == <<"No response generated.">>
ErrorText(e) == <<"Error generating response: ", e>>

NoAnswer == [kind |-> "none", text |-> <<>>]
Returned(text) == [kind |-> "text", text |-> text]
Raised(e) == [kind |-> "raised", text |-> <<e>>]

\* variant: without a model the market overview is returned
NoModelResponse_fallback == Returned(get_fallback_response)

\* line 103
NoModelResponse == Returned(UnavailableText)

\* line 107
NoContextResponse == Returned(get_fallback_response)

\* line 129, response.text is not empty
OnModelText(t) == Returned(<<t>>)

\* variant: empty output falls back to the market overview
OnEmptyOutput_fallback == Returned(get_fallback_response)

\* line 129, response.text is empty
OnEmptyOutput == Returned(NoResponseText)

\* variant: no except clause around generate_content
OnAdapterException_propagates(e) == Raised(e)

\* lines 130-131
OnAdapterException(e) == Returned(ErrorText(e))

\* what the adapter can do: return text, return empty text, raise
NotInvoked == [result |-> "none", detail |-> ""]
AdapterOutcomes ==
    {[result |-> "text", detail |-> t] : t \in ModelTexts}
    \cup {[result |-> "empty", detail |-> ""]}
    \cup {[result |-> "raise", detail |-> e] : e \in AdapterErrors}

\* lines 127-131
Respond(o) ==
    IF o.result = "raise" THEN OnAdapterException(o.detail)
    ELSE IF o.result = "empty" THEN OnEmptyOutput
    ELSE OnModelText(o.detail)

\* ------------------------------------------------------------------ state
\* how:      none | hit | building | built | raised
\* found:    the lookup found an entry
\* wasStale: ... and the corpus had been modified since that entry's glob
\* forced:   the lookup was the first one after a clear()
\* second:   <<>>, or <<v, n>>: the call began after a completed call that
\*           returned v and opened n files, with no clear() between the two
\* globbed:  files the glob listed;  opened: files fitz.open was called on
\* broken:   opened files that could not be read
\* dirty:    the corpus had been modified between the glob before and this glob
\* whole:    the value returned came from a loop that had visited every file
NoCall == [how |-> "none", found |-> FALSE, wasStale |-> FALSE, forced |-> FALSE,
           second |-> <<>>, globbed |-> {}, opened |-> {}, broken |-> {},
           dirty |-> FALSE, whole |-> FALSE]

Init ==
    /\ corpus \in [Files -> FileStates]
    /\ cache = <<>>
    /\ pc = "idle"
    /\ model = FALSE
    /\ clicked = FALSE
    /\ prompt = NoPrompt
    /\ caller = "sidebar"
    /\ pdf_files = <<>>
    /\ documents = <<>>
    /\ ret = None
    /\ buttonShown = FALSE
    /\ response = NoAnswer
    /\ adapter = NotInvoked
    /\ call = NoCall
    /\ lastRet = <<>>
    /\ invalidated = FALSE
    /\ cleared = <<>>
    /\ touched = FALSE
    /\ whole = FALSE

\* ---------------------------------------------------------------- actions
\* main(): TelecomApp() runs setup_gemini (m: the model object was created),
\* then render_sidebar calls load_pdf_context
BeginRun(click, q, m) ==
    /\ model' = m
    /\ clicked' = click
    /\ prompt' = q
    /\ caller' = "sidebar"
    /\ pc' = "load"
    /\ ret' = None
    /\ response' = NoAnswer
    /\ adapter' = NotInvoked
    /\ call' = NoCall
    /\ UNCHANGED <<corpus, cache, pdf_files, documents, buttonShown, lastRet,
                   invalidated, cleared, touched, whole>>

\* a user interaction reruns the script; the reload button can be pressed only
\* if the previous run rendered it; the chat input and the button are
\* different widgets, so one run carries at most one of them
StartRun ==
    /\ pc = "idle"
    /\ \E click \in BOOLEAN, q \in {NoPrompt} \cup Queries, m \in BOOLEAN :
          /\ click => buttonShown /\ q = NoPrompt
          /\ BeginRun(click, q, m)

\* st.rerun(): the script starts over with no widget triggered
Rerun ==
    /\ pc = "rerun"
    /\ \E m \in BOOLEAN : BeginRun(FALSE, NoPrompt, m)

\* return from load_pdf_context to the line that called it
BackTo(from) == IF from = "sidebar" THEN "sidebar" ELSE "answer"

\* the wrapper of @st.cache_data, entered at line 168 or line 105: a stored
\* value is returned without running the body; otherwise the body runs
Lookup ==
    /\ pc = "load"
    /\ invalidated' = FALSE
    /\ LET c == [NoCall EXCEPT !.found = (cache # <<>>),
                               !.wasStale = (cache # <<>> /\ touched),
                               !.forced = invalidated,
                               !.second = lastRet]
       IN IF IsHit(cache, touched)
          THEN /\ ret' = cache[1]
               /\ call' = [c EXCEPT !.how = "hit", !.whole = whole]
               /\ lastRet' = <<cache[1], 0>>
               /\ pc' = BackTo(caller)
          ELSE /\ call' = [c EXCEPT !.how = "building"]
               /\ pc' = "glob"
               /\ UNCHANGED <<ret, lastRet>>
    /\ UNCHANGED <<corpus, cache, model, clicked, prompt, caller, pdf_files,
                   documents, buttonShown, response, adapter, cleared, touched,
                   whole>>

\* the body returns v: the wrapper writes it to the cache and hands it on
\* (c: the call's record as the body ends)
Store(c, v) ==
    /\ cache' = <<v>>
    /\ ret' = v
    /\ pc' = BackTo(caller)
    /\ whole' = (c.opened = c.globbed)
    /\ lastRet' = <<v, Cardinality(c.opened)>>
    /\ call' = [c EXCEPT !.how = "built", !.whole = (c.opened = c.globbed)]

\* lines 82-89: enumerate the directory; with no pdf the body returns None
ListFiles ==
    /\ pc = "glob"
    /\ LET c == [call EXCEPT !.globbed = {f \in Files : corpus[f] # "absent"},
                             !.dirty = touched]
       IN IF Glob(corpus) = <<>>
          THEN /\ Store(c, None)
               /\ UNCHANGED <<pdf_files, documents>>
          ELSE /\ pdf_files' = Glob(corpus)
               /\ documents' = <<>>
               /\ pc' = "loop"
               /\ call' = c
               /\ UNCHANGED <<cache, ret, lastRet, whole>>
    /\ touched' = FALSE
    /\ UNCHANGED <<corpus, model, clicked, prompt, caller, buttonShown, response,
                   adapter, invalidated, cleared>>

\* line 83 is inside no try: an OSError of the directory listing leaves the
\* body, the wrapper (which stores nothing), the caller and main
ListFilesRaises ==
    /\ pc = "glob"
    /\ call' = [call EXCEPT !.how = "raised"]
    /\ pc' = "done"
    /\ response' = IF caller = "answer" THEN Raised("OSError") ELSE response
    /\ buttonShown' = IF caller = "sidebar" THEN FALSE ELSE buttonShown
    /\ UNCHANGED <<corpus, cache, model, clicked, prompt, caller, pdf_files,
                   documents, ret, adapter, lastRet, invalidated, cleared, touched,
                   whole>>

\* lines 90-96: one iteration; the file is opened now, whatever it was at glob time
Extract ==
    /\ pc = "loop"
    /\ ~LoopDone(pdf_files)
    /\ LET f == Head(pdf_files) IN
         /\ documents' = ExtractInto(documents, f, corpus[f])
         /\ call' = [call EXCEPT !.opened = @ \cup {f},
                                 !.broken = IF Readable(corpus[f]) THEN @
                                            ELSE @ \cup {f}]
    /\ pdf_files' = Tail(pdf_files)
    /\ UNCHANGED <<corpus, cache, pc, model, clicked, prompt, caller, ret,
                   buttonShown, response, adapter, lastRet, invalidated, cleared,
                   touched, whole>>

\* line 98, and the wrapper's write of the returned value
ReturnContext ==
    /\ pc = "loop"
    /\ LoopDone(pdf_files)
    /\ Store(call, Assemble(documents))
    /\ documents' = <<>>
    /\ pdf_files' = <<>>
    /\ UNCHANGED <<corpus, model, clicked, prompt, caller, buttonShown, response,
                   adapter, invalidated, cleared, touched>>

\* lines 168-172: status, button, st.cache_data.clear(), st.rerun()
Sidebar ==
    /\ pc = "sidebar"
    /\ buttonShown' = ShowsReload(ret)
    /\ IF ShowsReload(ret) /\ clicked
       THEN /\ cache' = AfterClear(cache)
            /\ cleared' = cache
            /\ whole' = FALSE
            /\ lastRet' = <<>>
            /\ invalidated' = TRUE
            /\ pc' = "rerun"
       ELSE /\ pc' = "page"
            /\ UNCHANGED <<cache, cleared, whole, lastRet, invalidated>>
    /\ UNCHANGED <<corpus, model, clicked, prompt, caller, pdf_files, documents,
                   ret, response, adapter, call, touched>>

\* render_ai_analyst with a chat input calls generate_ai_response (lines 100-105);
\* every other page, or no input, ends the run
Page ==
    /\ pc = "page"
    /\ IF prompt = NoPrompt
       THEN /\ pc' = "done"
            /\ UNCHANGED <<response, caller>>
       ELSE IF ~model
       THEN /\ response' = NoModelResponse
            /\ pc' = "done"
            /\ UNCHANGED caller
       ELSE /\ caller' = "answer"
            /\ pc' = "load"
            /\ UNCHANGED response
    /\ UNCHANGED <<corpus, cache, model, clicked, prompt, pdf_files, documents,
                   ret, buttonShown, adapter, call, lastRet, invalidated, cleared,
                   touched, whole>>

\* lines 106-107
CheckContext ==
    /\ pc = "answer"
    /\ IF ~Truthy(ret)
       THEN /\ response' = NoContextResponse
            /\ pc' = "done"
       ELSE /\ pc' = "invoke"
            /\ UNCHANGED response
    /\ UNCHANGED <<corpus, cache, model, clicked, prompt, caller, pdf_files,
                   documents, ret, buttonShown, adapter, call, lastRet,
                   invalidated, cleared, touched, whole>>

\* lines 127-131: the adapter returns text, returns empty text, or raises
Invoke ==
    /\ pc = "invoke"
    /\ \E o \in AdapterOutcomes :
          /\ adapter' = o
          /\ response' = Respond(o)
    /\ pc' = "done"
    /\ UNCHANGED <<corpus, cache, model, clicked, prompt, caller, pdf_files,
                   documents, ret, buttonShown, call, lastRet, invalidated,
                   cleared, touched, whole>>

\* the script run is over: its locals are gone, the page waits for the user
EndRun ==
    /\ pc = "done"
    /\ pc' = "idle"
    /\ model' = FALSE
    /\ clicked' = FALSE
    /\ prompt' = NoPrompt
    /\ caller' = "sidebar"
    /\ pdf_files' = <<>>
    /\ documents' = <<>>
    /\ ret' = None
    /\ response' = NoAnswer
    /\ adapter' = NotInvoked
    /\ call' = NoCall
    /\ cleared' = <<>>
    /\ UNCHANGED <<corpus, cache, buttonShown, lastRet, invalidated, touched,
                   whole>>

\* the environment adds, removes, replaces or damages a pdf
ChangeCorpus ==
    /\ \E f \in Files, st \in FileStates :
          /\ st # corpus[f]
          /\ corpus' = [corpus EXCEPT ![f] = st]
    /\ touched' = TRUE
    /\ UNCHANGED <<cache, pc, model, clicked, prompt, caller, pdf_files, documents,
                   ret, buttonShown, response, adapter, call, lastRet, invalidated,
                   cleared, whole>>

Next ==
    \/ StartRun
    \/ Rerun
    \/ Lookup
    \/ ListFiles
    \/ ListFilesRaises
    \/ Extract
    \/ ReturnContext
    \/ Sidebar
    \/ Page
    \/ CheckContext
    \/ Invoke
    \/ EndRun
    \/ ChangeCorpus

Spec == Init /\ [][Next]_vars

\* ------------------------------------------------------------------ claims
\* generate_ai_response was called in this run and the run is over
AnswerCalled == pc = "done" /\ prompt # NoPrompt /\ call.how # "raised"

Present(c) == {f \in Files : c[f] # "absent"}
Names(ctx) == {ctx[i].name : i \in 1..Len(ctx)}
Shows(text, detail) == \E i \in 1..Len(text) : text[i] = detail

\* C1: whatever the model does (absent, raises, empty text, text) and whatever
\* the corpus holds (nothing, readable pdfs, unreadable pdfs), a call of
\* generate_ai_response ends by returning text; no exception leaves it.
C1_NeverRaises == AnswerCalled => response.kind = "text"

C1_Witness ==
    /\ AnswerCalled
    /\ adapter.result = "raise"
    /\ \E f \in Files : corpus[f] = "bad"
    /\ response.kind = "text"

\* C2 as stated: without a model the answer is the market overview of
\* get_fallback_response, for any query.
C2_Original == (AnswerCalled /\ ~model) => response.text = get_fallback_response

\* C2 as amended: without a model the answer is, for any query and any corpus,
\* the fixed text "AI service unavailable. Please check configuration.", and
\* the adapter is not invoked.
C2_Unavailable ==
    (AnswerCalled /\ ~model) =>
        /\ response.kind = "text"
        /\ response.text = UnavailableText
        /\ adapter = NotInvoked

C2_Witness ==
    /\ AnswerCalled /\ ~model
    /\ prompt = "q2"
    /\ Truthy(ret)
    /\ response.text = UnavailableText

\* C3 as stated: with a model and a context, empty output or an adapter failure
\* ends in the market overview, and the error detail is not in the text.
C3_Original ==
    (pc = "done" /\ adapter.result \in {"empty", "raise"}) =>
        /\ response.text = get_fallback_response
        /\ ~Shows(response.text, adapter.detail)

\* C3 as amended: with a model and a context, empty output is answered by the
\* fixed text "No response generated." and an adapter failure by "Error
\* generating response: " followed by the error's own text; both are returned
\* as text, neither is the market overview.
C3_ErrorStrings ==
    (pc = "done" /\ adapter.result \in {"empty", "raise"}) =>
        /\ model /\ Truthy(ret)
        /\ response.kind = "text"
        /\ response.text # get_fallback_response
        /\ adapter.result = "empty" => response.text = NoResponseText
        /\ adapter.result = "raise" =>
              /\ response.text[1] = "Error generating response: "
              /\ Shows(response.text, adapter.detail)

C3_Witness ==
    /\ pc = "done"
    /\ adapter = [result |-> "raise", detail |-> "timeout"]
    /\ response.text = <<"Error generating response: ", "timeout">>

\* C4 as stated: a call that finds the corpus modified since the cached context
\* was built rebuilds it, so no call returns a context of an earlier corpus.
C4_Original == call.how = "hit" => ~call.wasStale

\* C4 as amended: load_pdf_context rebuilds exactly when the cache holds no
\* entry (first call, or after clear()); an entry is returned as it is, with no
\* file opened, also when the corpus was modified after it was built.
C4_RebuildOnlyWhenEmpty ==
    call.how # "none" =>
        /\ (call.how = "hit") <=> call.found
        /\ call.how = "hit" => call.opened = {} /\ call.globbed = {}

C4_Witness ==
    /\ call.how = "hit" /\ call.wasStale
    /\ Truthy(ret)
    /\ \E f \in Files : Readable(corpus[f]) /\ f \notin Names(ret)

\* C5: of two calls in a row with no clear() between them, the second returns
\* the value the first returned and opens no file, so a corpus of K pdfs is
\* opened K times over the two calls.
C5_SecondCallIsHit ==
    (call.second # <<>> /\ call.how # "none") =>
        /\ call.how = "hit"
        /\ ret = call.second[1]
        /\ call.opened = {}

C5_Witness ==
    /\ call.second # <<>>
    /\ call.second[2] = NumFiles
    /\ call.how = "hit"
    /\ Len(ret) = NumFiles

\* C6: the first call after clear() is no cache hit: it runs the body, which
\* opens every pdf the directory holds, also when nothing changed on disk.
C6_ReloadReextracts ==
    call.forced =>
        /\ call.how \in {"building", "built", "raised"}
        /\ (call.how = "built" /\ ~touched) => call.opened = Present(corpus)

C6_Witness ==
    /\ call.forced /\ call.how = "built"
    /\ ~call.dirty /\ ~touched
    /\ call.opened = Files
    /\ cleared = <<ret>>

\* C7 as stated: with exactly one unreadable pdf among N, the context returned
\* holds N blocks.
C7_Original ==
    (call.how = "built" /\ Cardinality(call.broken) = 1) =>
        Len(ret) = Cardinality(call.globbed)

\* C7 as amended: an unreadable pdf does not make load_pdf_context fail, and it
\* contributes no block: of N listed pdfs with one unreadable the context holds
\* the N-1 readable ones, and None is returned when none is left.
C7_FailedSourceOmitted ==
    /\ call.how = "built" =>
          /\ Len(ret) = Cardinality(call.globbed) - Cardinality(call.broken)
          /\ Names(ret) = call.globbed \ call.broken
          /\ (call.globbed = call.broken) <=> (ret = None)
    /\ call.how = "raised" => call.opened = {}

C7_Witness ==
    /\ call.how = "built"
    /\ Cardinality(call.globbed) = NumFiles
    /\ Cardinality(call.broken) = 1
    /\ Len(ret) = NumFiles - 1

\* C9 as stated: no call returns a partly built context, and when a rebuild
\* raises (the one after a reload included) the cache holds the value it held
\* before.
C9_Original ==
    /\ call.how \in {"hit", "built"} => call.whole
    /\ (call.how = "raised" /\ cleared # <<>>) => cache = cleared

\* C9 as amended: no call returns a partly built context and a rebuild that
\* raises writes nothing; but a rebuild only ever starts from an empty cache
\* (the reload clears it first), so after a rebuild raised the cache holds no
\* value: the previous context is gone and the next call rebuilds.
C9_WholeOrNothing ==
    /\ call.how \in {"hit", "built"} => call.whole
    /\ call.how \in {"building", "raised"} => cache = <<>>

C9_Witness ==
    /\ call.how = "raised"
    /\ cleared # <<>>
    /\ cache = <<>>

\* C10: the reload button exists only while the context is non-empty, so once
\* None is cached nothing the user can do clears the cache: the entry stays,
\* the sidebar shows no button, and an answer with a model configured is the
\* market overview, also after pdfs were added.
C10_EmptyIsSticky ==
    [][ /\ (pc' = "idle" /\ buttonShown') => (cache' # <<>> /\ Truthy(cache'[1]))
        /\ cache = <<None>> =>
              /\ cache' = <<None>>
              /\ pc' = "page" => ~buttonShown'
              /\ (AnswerCalled' /\ model') => response'.text = get_fallback_response
      ]_vars

C10_Witness ==
    /\ cache = <<None>>
    /\ \A f \in Files : Readable(corpus[f])
    /\ AnswerCalled /\ model
    /\ call.how = "hit"
    /\ response.text = get_fallback_response

=============================================================================
